---------------------------- MODULE Spec2Model ----------------------------
(***************************************************************************)
(* sweep: sampling GitHub's code search for copies of one file name and    *)
(* storing one row per git blob in SQLite (src/index.js, the second,       *)
(* current program of the file: lines 131-356).                            *)
(*                                                                         *)
(* Time is in milliseconds, as Date.now().  Strings the program parses     *)
(* or rewrites (header values, the file name) are tuples of one-character  *)
(* strings, so that parseInt and String.replace are computed.              *)
(***************************************************************************)
EXTENDS Integers, Sequences, FiniteSets, TLC

VARIABLES
    dbSchema,           \* db.sqlite: [tables: the tables that exist, index: the table idx_git_hash_pkg_jsons is on]
    dbRows,             \* db.sqlite: table name -> the rows of the table, in insertion order
    run,                \* number of the current invocation of the program
    pc,                 \* where main() is: "init", "search", "processing", "done"
    fileName,           \* process.argv[2]
    dbOpen,             \* the Database handle is open
    closes,             \* how often cleanup() closed the handle in this run
    exitPath,           \* "none", "exhausted" (the for-of loop ended) or "error" (the catch block ran)
    paramIdx,           \* position of the for-of loop in getHelpfulParams(fileName)
    page,               \* main's page
    lastPage,           \* main's lastPage
    rateLimits,         \* main's rateLimits of the current page
    lastCallTimestamp,  \* main's lastCallTimestamp
    now,                \* Date.now()
    offers,             \* processSearchResults' work: one async callback per item
    calls,              \* search calls issued so far, by all runs
    lastReq,            \* history: the latest search call of this run and what came of it
    processed,          \* history: the <<paramIdx, page>> whose items this run has handed to processSearchResults
    twice,              \* history: some page's items were handed to processSearchResults a second time
    offerHist,          \* history: per table and item, the counts its offers of earlier pages returned
    enumFile,           \* the enumerator on its own: the file name given to getHelpfulParams
    yielded,            \* the enumerator on its own: the values yielded so far
    enumDone,           \* the enumerator on its own: the generator returned
    enumRound,          \* the enumerator on its own: how many times getHelpfulParams(enumFile) was called
    earlier,            \* the enumerator on its own: the values the call before this one yielded
    answers,            \* the re-run: the items the search answers with, per parameterization, in every run
    rowsLeft            \* the re-run: the tables as the completed run left them

vars == <<dbSchema, dbRows, run, pc, fileName, dbOpen, closes, exitPath, paramIdx, page,
          lastPage, rateLimits, lastCallTimestamp, now, offers, calls, lastReq,
          processed, twice, offerHist, enumFile, yielded, enumDone, enumRound, earlier,
          answers, rowsLeft>>

runVars == <<dbSchema, dbRows, run, pc, fileName, dbOpen, closes, exitPath, paramIdx, page,
             lastPage, rateLimits, lastCallTimestamp, now, offers, calls, lastReq,
             processed, twice, offerHist>>

enumVars == <<enumFile, yielded, enumDone, enumRound, earlier>>

rerunVars == <<answers, rowsLeft>>

---------------------------------------------------------------------------
(* Bounds of the model *)

\* invocations of the program against the same db.sqlite
MaxRuns == 2
\* search calls, over all invocations
MaxCalls == 3
\* items on one page of search results
MaxItems == 2
\* how long the processing of one page is followed, in ticks of TickMs
MaxTicks == 2
\* Date.now() when the first invocation starts
StartTime == 5000
\* how far ahead of the response the reported rate-limit reset lies, in seconds
ResetAheadS == 2
\* the largest retry-after a rejection carries, in seconds
MaxRetryAfterS == 1
\* Date.now() moves on by this much from the start of one invocation to the next
RunGapMs == 100000
\* calls of getHelpfulParams with the same file name
MaxEnums == 2

---------------------------------------------------------------------------
(* Values *)

Undefined == "undefined"
Null == "NULL"
\* Number.POSITIVE_INFINITY: above every page number
Infinity == 2147483647
\* parseInt's "not a number"
NaN == -2147483647
\* Node's timers: a delay outside 1..TIMEOUT_MAX is set to 1
TIMEOUT_MAX == 2147483647

PackageJson == <<"p", "a", "c", "k", "a", "g", "e", ".", "j", "s", "o", "n">>
YarnLock == <<"y", "a", "r", "n", ".", "l", "o", "c", "k">>
Gemfile == <<"G", "e", "m", "f", "i", "l", "e">>

FileNames == {PackageJson, YarnLock}
EnumFileNames == {PackageJson, YarnLock, Gemfile}

DigitChars == <<"0", "1", "2", "3", "4", "5", "6", "7", "8", "9">>

IsDigit(c) == \E i \in 1..10 : DigitChars[i] = c

DigitVal(c) == (CHOOSE i \in 1..10 : DigitChars[i] = c) - 1

\* the decimal digits of a natural number, as a server writes a header value
RECURSIVE ToDigits(_)
ToDigits(n) == IF n < 10 THEN <<DigitChars[n + 1]>>
               ELSE Append(ToDigits(n \div 10), DigitChars[(n % 10) + 1])

\* parseInt(s, 10) on a string without sign or leading blanks: the value of
\* the longest prefix of digits, NaN when there is none
RECURSIVE ParseDigits(_, _, _)
ParseDigits(s, i, acc) ==
    IF i > Len(s) \/ ~IsDigit(s[i]) THEN acc
    ELSE ParseDigits(s, i + 1, acc * 10 + DigitVal(s[i]))

parseInt(s) == IF Len(s) = 0 \/ ~IsDigit(s[1]) THEN NaN ELSE ParseDigits(s, 1, 0)

\* x * k in JavaScript numbers
Times(x, k) == IF x = NaN THEN NaN ELSE x * k

\* x < y in JavaScript numbers
Less(x, y) == x # NaN /\ y # NaN /\ x < y

---------------------------------------------------------------------------
(* getRateLimits, getLastPageNumber *)

\* headers[name] as a string: undefined reads as no digits
Header(headers, name) == IF name \in DOMAIN headers THEN headers[name] ELSE <<>>

\* headers[name] || '0'
HeaderOrZero(headers, name) ==
    IF name \notin DOMAIN headers \/ headers[name] = <<>> THEN <<"0">> ELSE headers[name]

getRateLimits(headers) ==
    [resetTimestamp |-> Times(parseInt(HeaderOrZero(headers, "x-ratelimit-reset")), 1000),
     requestsRemaining |-> parseInt(HeaderOrZero(headers, "x-ratelimit-remaining"))]

\* getLastPageNumber falling back on the next relation
getLastPageNumberFromNext(headers) ==
    IF "link" \notin DOMAIN headers THEN 0
    ELSE IF "last" \notin DOMAIN headers["link"] THEN parseInt(headers["link"]["next"])
    ELSE parseInt(headers["link"]["last"])

\* headers is a function from the names of the headers present to their
\* values; the link header is given as what parse-link-header makes of it:
\* a function from rel names to the page parameter of the link's URL
getLastPageNumber(headers) ==
    IF "link" \notin DOMAIN headers THEN 0
    ELSE IF "last" \notin DOMAIN headers["link"] THEN 0
    ELSE parseInt(headers["link"]["last"])

---------------------------------------------------------------------------
(* getHelpfulParams *)

orderParams == <<"asc", "desc">>

searchTerms ==
    <<"name", "version", "description", "keywords", "homepage",
      "bugs", "license", "author", "contributors", "files",
      "main", "browser", "bin", "man", "directories", "repository",
      "scripts", "config", "dependencies", "devDependencies", "peerDependencies",
      "bundledDependencies", "optionalDependencies", "engines", "engineStrict", "os",
      "cpu", "preferGlobal", "private", "publishConfig">>

\* the first loop of a case nested in a loop over the orders
DefaultSortParamsPerOrder(terms) ==
    [k \in 1..(Len(orderParams) * Len(terms)) |->
        [sortParam |-> Undefined,
         orderParam |-> orderParams[((k - 1) \div Len(terms)) + 1],
         searchTerm |-> terms[((k - 1) % Len(terms)) + 1]]]

\* the first loop of a case: one value per term, no sort, no order
DefaultSortParams(terms) ==
    [i \in 1..Len(terms) |->
        [sortParam |-> Undefined, orderParam |-> Undefined, searchTerm |-> terms[i]]]

\* the nested loops of a case: for each order, one value per term
IndexedSortParams(terms) ==
    [k \in 1..(Len(orderParams) * Len(terms)) |->
        [sortParam |-> "indexed",
         orderParam |-> orderParams[((k - 1) \div Len(terms)) + 1],
         searchTerm |-> terms[((k - 1) % Len(terms)) + 1]]]

\* the generator of the README: every sort with every order
getHelpfulParamsOfReadme(fn) ==
    IndexedSortParams(searchTerms)
    \o [k \in 1..(Len(orderParams) * Len(searchTerms)) |->
          [sortParam |-> Undefined,
           orderParam |-> orderParams[((k - 1) \div Len(searchTerms)) + 1],
           searchTerm |-> searchTerms[((k - 1) % Len(searchTerms)) + 1]]]

\* the generator with orderParams shared by its calls and left reversed by
\* each of them
getHelpfulParamsSharedOrders(fn) ==
    LET terms == IF fn = PackageJson THEN searchTerms ELSE <<"">>
        ps == DefaultSortParams(terms) \o IndexedSortParams(terms)
    IN IF enumRound % 2 = 1 THEN ps
       ELSE [k \in 1..Len(ps) |->
               IF ps[k].orderParam = "asc" THEN [ps[k] EXCEPT !.orderParam = "desc"]
               ELSE IF ps[k].orderParam = "desc" THEN [ps[k] EXCEPT !.orderParam = "asc"]
               ELSE ps[k]]

\* the sequence of values the generator yields, in order
getHelpfulParams(fn) ==
    IF fn = PackageJson
    THEN DefaultSortParams(searchTerms) \o IndexedSortParams(searchTerms)
    ELSE DefaultSortParams(<<"">>) \o IndexedSortParams(<<"">>)

---------------------------------------------------------------------------
(* The database: db.sqlite as setup leaves it, db.get and db.run *)

NoIndex == <<>>

\* main: fileName.replace(/\./g, '_')
TableNameOf(fn) == [i \in 1..Len(fn) |-> IF fn[i] = "." THEN "_" ELSE fn[i]]

TableNames == {TableNameOf(fn) : fn \in FileNames}

\* setup: CREATE TABLE IF NOT EXISTS t (url, data, git_hash, all NOT NULL);
\* CREATE UNIQUE INDEX IF NOT EXISTS idx_git_hash_pkg_jsons ON t (git_hash).
\* An index name belongs to the database, not to a table: when the name
\* exists the statement does nothing, on whatever table the index is.
SetupSchema(schema, t) ==
    [tables |-> schema.tables \cup {t},
     index |-> IF schema.index = NoIndex THEN t ELSE schema.index]

\* a JavaScript value as sqlite3 binds it: undefined is left unbound, NULL
Bind(v) == IF v = Undefined THEN Null ELSE v

NoErr == [errno |-> 0, kind |-> "OK"]
\* SQLITE_CONSTRAINT, the errno of every constraint the schema states
SQLITE_CONSTRAINT == 19
IoErr == [errno |-> 10, kind |-> "IOERR"]
ClosedErr == [errno |-> 21, kind |-> "MISUSE"]

\* INSERT INTO t VALUES (?, ?, ?) on an open database without I/O trouble:
\* the error SQLite gives, NoErr when the row is added
SqliteInsert(schema, rows, t, row) ==
    IF row.url = Null \/ row.data = Null \/ row.git_hash = Null
    THEN [errno |-> SQLITE_CONSTRAINT, kind |-> "NOTNULL"]
    ELSE IF schema.index = t /\ \E i \in 1..Len(rows) : rows[i].git_hash = row.git_hash
    THEN [errno |-> SQLITE_CONSTRAINT, kind |-> "UNIQUE"]
    ELSE NoErr

\* SELECT git_hash FROM t WHERE git_hash = ?: a NULL parameter matches no row
SqliteSelect(rows, githash) ==
    {i \in 1..Len(rows) : githash # Null /\ rows[i].git_hash = githash}

\* haveSeenGitHash resolving with !row
haveSeenGitHashNegated(rows, githash) == SqliteSelect(rows, Bind(githash)) = {}

\* haveSeenGitHash never finding a row
haveSeenGitHashBlind(rows, githash) == FALSE

\* haveSeenGitHash's callback without error: resolve(!!row)
haveSeenGitHash(rows, githash) == SqliteSelect(rows, Bind(githash)) # {}

\* saveFileData's callback: how the promise settles for db.run's error
saveFileData(err) ==
    IF err # NoErr
    THEN IF err.errno = 19 THEN [settled |-> "fulfilled", value |-> 0]
         ELSE [settled |-> "rejected", value |-> 0]
    ELSE [settled |-> "fulfilled", value |-> 1]

---------------------------------------------------------------------------
(* Timers *)

\* sleepUntil's default buffer
Buffer == 2000
\* main's spacing between two search calls
MinSpacing == 3000

TickMs == MinSpacing \div 2

\* setTimeout(f, ms): the delay Node arms the timer with
setTimeout(ms) == IF ms = NaN \/ ms < 1 \/ ms > TIMEOUT_MAX THEN 1 ELSE ms

\* sleepUntil forgetting its buffer
sleepUntilNoBuffer(timestamp, buffer, t) ==
    t + setTimeout(IF timestamp = NaN THEN NaN ELSE timestamp - t)

\* sleepUntil(timestamp, buffer) called at time t: when its promise resolves
sleepUntil(timestamp, buffer, t) ==
    t + setTimeout(IF timestamp = NaN THEN NaN ELSE timestamp - t + buffer)

\* sleepFor setting a timer of no delay
sleepForNoDelay(ms, t) == t + setTimeout(0)

\* sleepFor(ms) called at time t: when its promise resolves
sleepFor(ms, t) == t + setTimeout(ms)

\* the abuse test taking every 403 for the abuse signal
IsAbuseAny403(e) == e.status = 403

\* main's catch of a failed search call: the abuse detection test
IsAbuse(e) == e.status = 403 /\ "retry-after" \in DOMAIN e.headers /\ e.headers["retry-after"] # <<>>

\* main, after a successful page: when the loop goes on
PaceUntil(rl, lastCall, t) ==
    IF Less(rl.requestsRemaining, 1) THEN sleepUntil(rl.resetTimestamp, Buffer, t)
    ELSE IF t - lastCall < MinSpacing THEN sleepFor(MinSpacing - (t - lastCall), t)
    ELSE t

\* the abuse branch without its page--
RetryPageKept(pg) == pg

\* main, the abuse branch: page-- before continue
RetryPage(pg) == pg - 1

---------------------------------------------------------------------------
(* What the collaborators may answer *)

NoHeaders == [n \in {} |-> <<>>]

\* two files with the same blob, a file with another, an item without sha
Item1 == [html_url |-> "u1", sha |-> "h1"]
Item2 == [html_url |-> "u2", sha |-> "h1"]
Item3 == [html_url |-> "u3", sha |-> "h2"]
Item4 == [html_url |-> "u4", sha |-> Undefined]

Items == {Item1, Item2, Item3, Item4}

\* the pages of results: up to MaxItems items
ItemLists == UNION {[1..n -> Items] : n \in 0..MaxItems}

Contents == {"c1"}

\* the rate-limit headers of a response at time t, the quota resetting
\* ResetAheadS seconds later
RateLimitHeaders(rem, t) ==
    [n \in {"x-ratelimit-remaining", "x-ratelimit-reset"} |->
        IF n = "x-ratelimit-remaining" THEN rem ELSE ToDigits((t \div 1000) + ResetAheadS)]

QuotaLeft(t) == RateLimitHeaders(<<"1">>, t)
QuotaUsedUp(t) == RateLimitHeaders(<<"0">>, t)

RateHeaders(t) == {NoHeaders, QuotaUsedUp(t), QuotaLeft(t)}

NextOnly == [n \in {"link"} |-> [next |-> <<"2">>]]
LastPage1 == [n \in {"link"} |-> [last |-> <<"1">>]]
LastPage2 == [n \in {"link"} |-> [next |-> <<"2">>, last |-> <<"2">>]]
LastPage3 == [n \in {"link"} |-> [next |-> <<"2">>, last |-> <<"3">>]]

LinkHeaders == {NoHeaders, NextOnly, LastPage1, LastPage2, LastPage3}

\* the errors a search call fails with
AbuseError(s) == [status |-> 403, headers |-> [n \in {"retry-after"} |-> ToDigits(s)]]
Forbidden == [status |-> 403, headers |-> NoHeaders]
ServerError == [status |-> 500, headers |-> NoHeaders]

SearchErrors == {AbuseError(s) : s \in 0..MaxRetryAfterS} \cup {Forbidden, ServerError}

---------------------------------------------------------------------------
(* main *)

NoReq == [outcome |-> "none"]

Params == getHelpfulParams(fileName)

tableName == TableNameOf(fileName)

\* the async callback of items[i], at its first await.  first: the item has
\* a blob identity that no row of the table and no other item of the page has
\* history: the rows of a table that hold a blob identity
RowsWith(rows, sha) == {i \in 1..Len(rows) : rows[i].git_hash = sha}

NoHist == [firstCount |-> -1, laterCounts |-> {}]

NewOffer(items, i) ==
    [item |-> items[i], st |-> "haveSeen", hadRow |-> FALSE, downloaded |-> FALSE,
     content |-> Null, err |-> "none", value |-> 0, inserted |-> FALSE,
     first |-> /\ items[i].sha # Undefined
               /\ RowsWith(dbRows[tableName], items[i].sha) = {}
               /\ \A j \in 1..Len(items) : j # i => items[j].sha # items[i].sha]

Settled(o) == o.st \in {"fulfilled", "rejected"}

\* main closing the database at the end of its try block, not in a finally
FinishWithoutFinally(path) ==
    /\ pc' = "done"
    /\ exitPath' = path
    /\ dbOpen' = (dbOpen /\ path = "error")
    /\ closes' = IF path = "error" THEN closes ELSE closes + 1

\* the finally block: cleanup(db)
Finish(path) ==
    /\ pc' = "done"
    /\ exitPath' = path
    /\ dbOpen' = FALSE
    /\ closes' = closes + 1

\* the inner loop's test with <= for <
PageTestInclusive(pg, lp) == pg # NaN /\ lp # NaN /\ pg <= lp

\* the inner loop's test: page < lastPage
PageTest(pg, lp) == Less(pg, lp)

\* the loops' headers after the body ran for page pg with last page lp:
\* page++, the test page < lastPage, and the for-of loop's next value
Continue(pg, lp) ==
    IF PageTest(pg + 1, lp)
    THEN /\ page' = pg + 1
         /\ lastPage' = lp
         /\ pc' = "search"
         /\ UNCHANGED <<paramIdx, exitPath, dbOpen, closes>>
    ELSE IF paramIdx < Len(Params)
    THEN /\ paramIdx' = paramIdx + 1
         /\ page' = 0
         /\ lastPage' = Infinity
         /\ pc' = "search"
         /\ UNCHANGED <<exitPath, dbOpen, closes>>
    ELSE /\ Finish("exhausted")
         /\ page' = pg + 1
         /\ lastPage' = lp
         /\ UNCHANGED paramIdx

\* what a fresh process starts from
InitProcess ==
    /\ dbOpen = FALSE
    /\ closes = 0
    /\ exitPath = "none"
    /\ paramIdx = 1
    /\ page = 0
    /\ lastPage = Infinity
    /\ rateLimits = [resetTimestamp |-> 0, requestsRemaining |-> 0]
    /\ lastCallTimestamp = 0
    /\ offers = <<>>
    /\ lastReq = NoReq
    /\ processed = {}
    /\ twice = FALSE

InitRun ==
    /\ dbSchema = [tables |-> {}, index |-> NoIndex]
    /\ dbRows = [t \in TableNames |-> <<>>]
    /\ run = 1
    /\ pc = "init"
    /\ fileName = PackageJson
    /\ InitProcess
    /\ now = StartTime
    /\ calls = 0
    /\ offerHist = [k \in TableNames \X Items |-> NoHist]

\* no run has completed yet
NotYet == [done |-> FALSE]

Init ==
    /\ InitRun
    /\ enumFile = PackageJson
    /\ yielded = <<>>
    /\ enumDone = FALSE
    /\ enumRound = 1
    /\ earlier = <<>>
    /\ answers = <<>>
    /\ rowsLeft = NotYet

\* main up to the first search call: setup(tableName), the loops entered
Setup(fn) ==
    /\ pc = "init"
    /\ fileName' = fn
    /\ dbSchema' = SetupSchema(dbSchema, TableNameOf(fn))
    /\ dbOpen' = TRUE
    /\ paramIdx' = 1
    /\ page' = 0
    /\ lastPage' = Infinity
    /\ pc' = "search"
    /\ UNCHANGED <<dbRows, run, closes, exitPath, rateLimits, lastCallTimestamp, now, offers,
                   calls, lastReq, processed, twice, offerHist, enumVars, rerunVars>>

\* the record of a search call: what was asked, when, what came back, and
\* how many rows the table had
Request(outcome, status, headers) ==
    [paramIdx |-> paramIdx, page |-> page, at |-> now, outcome |-> outcome,
     status |-> status, headers |-> headers, settledAt |-> -1,
     rowsBefore |-> Len(dbRows[tableName])]

\* getSearchResults resolves: the page's items go to processSearchResults,
\* whose callbacks each run up to their first await
SearchAnswered(headers, items) ==
    /\ pc = "search"
    /\ calls' = calls + 1
    /\ lastReq' = Request("ok", 200, headers)
    /\ rateLimits' = getRateLimits(headers)
    /\ lastCallTimestamp' = now
    /\ lastPage' = getLastPageNumber(headers)
    /\ offers' = [i \in 1..Len(items) |-> NewOffer(items, i)]
    /\ processed' = processed \cup {<<paramIdx, page>>}
    /\ twice' = (twice \/ <<paramIdx, page>> \in processed)
    /\ pc' = "processing"
    /\ UNCHANGED <<dbSchema, dbRows, run, fileName, dbOpen, closes, exitPath, paramIdx, page,
                   now, offerHist, enumVars, rerunVars>>

\* SearchAnswered while the model follows search calls
SearchOk(headers, items) == calls < MaxCalls /\ SearchAnswered(headers, items)

\* getSearchResults rejects with e, main's inner catch
SearchRejected(e) ==
    /\ pc = "search"
    /\ calls' = calls + 1
    /\ lastReq' = Request("error", e.status, e.headers)
    /\ IF IsAbuse(e)
       THEN /\ now' = sleepFor(Times(parseInt(Header(e.headers, "retry-after")), 1000), now)
            /\ Continue(RetryPage(page), lastPage)
       ELSE \* res is undefined: destructuring it throws, the outer catch logs
            /\ Finish("error")
            /\ UNCHANGED <<now, page, lastPage, paramIdx>>
    /\ UNCHANGED <<dbSchema, dbRows, run, fileName, rateLimits, lastCallTimestamp, offers,
                   processed, twice, offerHist, enumVars, rerunVars>>

\* SearchRejected while the model follows search calls
SearchError(e) == calls < MaxCalls /\ SearchRejected(e)

\* an offer's await haveSeenGitHash(db, tableName, githash)
PreCheck(i, ioerr) ==
    /\ i \in 1..Len(offers)
    /\ offers[i].st = "haveSeen"
    /\ LET o == offers[i]
           had == RowsWith(dbRows[tableName], o.item.sha) # {}
       IN offers' = [offers EXCEPT ![i] =
            IF ~dbOpen \/ ioerr THEN [o EXCEPT !.st = "rejected"]
            ELSE IF haveSeenGitHash(dbRows[tableName], o.item.sha)
            THEN [o EXCEPT !.st = "fulfilled", !.value = 0, !.hadRow = had]
            ELSE [o EXCEPT !.st = "download", !.hadRow = had]]
    /\ UNCHANGED <<dbSchema, dbRows, run, pc, fileName, dbOpen, closes, exitPath, paramIdx,
                   page, lastPage, rateLimits, lastCallTimestamp, now, calls, lastReq,
                   processed, twice, offerHist, enumVars, rerunVars>>

\* an offer's await downloadFile(client, url): the body, or a transport error
Download(i, ok, body) ==
    /\ i \in 1..Len(offers)
    /\ offers[i].st = "download"
    /\ offers' = [offers EXCEPT ![i] =
         IF ok THEN [offers[i] EXCEPT !.st = "save", !.downloaded = TRUE, !.content = body]
         ELSE [offers[i] EXCEPT !.st = "rejected", !.downloaded = TRUE]]
    /\ UNCHANGED <<dbSchema, dbRows, run, pc, fileName, dbOpen, closes, exitPath, paramIdx,
                   page, lastPage, rateLimits, lastCallTimestamp, now, calls, lastReq,
                   processed, twice, offerHist, enumVars, rerunVars>>

\* an offer's await saveFileData(db, tableName, {url, content, githash})
Save(i, ioerr) ==
    /\ i \in 1..Len(offers)
    /\ offers[i].st = "save"
    /\ LET o == offers[i]
           row == [url |-> Bind(o.item.html_url), data |-> Bind(o.content),
                   git_hash |-> Bind(o.item.sha)]
           err == IF ~dbOpen THEN ClosedErr
                  ELSE IF ioerr THEN IoErr
                  ELSE SqliteInsert(dbSchema, dbRows[tableName], tableName, row)
           res == saveFileData(err)
       IN /\ dbRows' = IF err = NoErr
                       THEN [dbRows EXCEPT ![tableName] = Append(@, row)]
                       ELSE dbRows
          /\ offers' = [offers EXCEPT ![i] =
               [o EXCEPT !.st = res.settled, !.value = res.value, !.err = err.kind,
                         !.inserted = (err = NoErr)]]
    /\ UNCHANGED <<dbSchema, run, pc, fileName, dbOpen, closes, exitPath, paramIdx,
                   page, lastPage, rateLimits, lastCallTimestamp, now, calls, lastReq,
                   processed, twice, offerHist, enumVars, rerunVars>>

\* time passes while a page's items are processed
Tick ==
    /\ pc = "processing"
    /\ now - lastCallTimestamp < MaxTicks * TickMs
    /\ now' = now + TickMs
    /\ UNCHANGED <<dbSchema, dbRows, run, pc, fileName, dbOpen, closes, exitPath, paramIdx,
                   page, lastPage, rateLimits, lastCallTimestamp, offers, calls,
                   lastReq, processed, twice, offerHist, enumVars, rerunVars>>

RECURSIVE Sum(_, _)
Sum(f, n) == IF n = 0 THEN 0 ELSE f[n].value + Sum(f, n - 1)

\* the count processSearchResults resolves with
insertedCount == Sum(offers, Len(offers))

\* what the offers of a settled page add to the history of their items: the
\* count of the item's first offer (made when no row and no other item of
\* the page had its blob identity), and the counts of its offers after that
HistAfter(hist, os) ==
    [k \in DOMAIN hist |->
        LET mine == {i \in 1..Len(os) : k = <<tableName, os[i].item>>}
        IN IF mine = {} THEN hist[k]
           ELSE IF hist[k].firstCount = -1
           THEN IF \E i \in mine : os[i].first
                THEN [hist[k] EXCEPT !.firstCount = os[CHOOSE i \in mine : TRUE].value]
                ELSE hist[k]
           ELSE [hist[k] EXCEPT !.laterCounts = @ \cup {os[i].value : i \in mine}]]

\* Promise.race in the place of Promise.all: settled with the first callback
PromiseRace(os) ==
    IF \E i \in 1..Len(os) : os[i].st = "rejected" THEN "rejected"
    ELSE IF os = <<>> \/ \E i \in 1..Len(os) : os[i].st = "fulfilled" THEN "fulfilled"
    ELSE "pending"

\* Promise.all(work): rejected with the first rejection, fulfilled when every
\* callback is
PromiseAll(os) ==
    IF \E i \in 1..Len(os) : os[i].st = "rejected" THEN "rejected"
    ELSE IF \A i \in 1..Len(os) : os[i].st = "fulfilled" THEN "fulfilled"
    ELSE "pending"

\* the callbacks of a page that go on after main has left the page
InFlight(os) == SelectSeq(os, LAMBDA o : ~Settled(o))

\* Promise.all resolves: the count is logged, main paces and goes on
BatchSettled ==
    /\ pc = "processing"
    /\ PromiseAll(offers) = "fulfilled"
    /\ now' = PaceUntil(rateLimits, lastCallTimestamp, now)
    /\ lastReq' = [lastReq EXCEPT !.settledAt = now]
    /\ offerHist' = HistAfter(offerHist, offers)
    /\ offers' = InFlight(offers)
    /\ Continue(page, lastPage)
    /\ UNCHANGED <<dbSchema, dbRows, run, fileName, rateLimits, lastCallTimestamp, calls,
                   processed, twice, enumVars, rerunVars>>

\* Promise.all rejects with the first rejection: the outer catch logs, the
\* finally block closes the database; the other callbacks go on
BatchRejected ==
    /\ pc = "processing"
    /\ PromiseAll(offers) = "rejected"
    /\ Finish("error")
    /\ UNCHANGED <<dbSchema, dbRows, run, fileName, paramIdx, page, lastPage, rateLimits,
                   lastCallTimestamp, now, offers, calls, lastReq, processed, twice,
                   offerHist, enumVars, rerunVars>>

\* a new process on the db.sqlite the earlier runs left
NewProcess ==
    /\ run' = run + 1
    /\ pc' = "init"
    /\ dbOpen' = FALSE
    /\ closes' = 0
    /\ exitPath' = "none"
    /\ paramIdx' = 1
    /\ page' = 0
    /\ lastPage' = Infinity
    /\ rateLimits' = [resetTimestamp |-> 0, requestsRemaining |-> 0]
    /\ lastCallTimestamp' = 0
    /\ offers' = <<>>
    /\ lastReq' = NoReq
    /\ processed' = {}
    /\ twice' = FALSE
    /\ now' = StartTime + run * RunGapMs
    /\ UNCHANGED <<dbSchema, dbRows, fileName, offerHist, enumVars>>

\* the program is started again, on the db.sqlite the earlier runs left
Restart ==
    /\ pc = "done"
    /\ run < MaxRuns
    /\ now < StartTime + run * RunGapMs
    /\ \A i \in 1..Len(offers) : Settled(offers[i])
    /\ NewProcess
    /\ UNCHANGED <<calls, rerunVars>>

\* the store: every page of results, each the only page of its
\* parameterization, quota left, and a search that fails for good
Next ==
    \/ \E fn \in FileNames : Setup(fn)
    \/ \E items \in ItemLists : SearchOk(QuotaLeft(now), items)
    \/ SearchError(ServerError)
    \/ \E i \in 1..MaxItems, ioerr \in BOOLEAN : PreCheck(i, ioerr)
    \/ \E i \in 1..MaxItems, ok \in BOOLEAN, body \in Contents : Download(i, ok, body)
    \/ \E i \in 1..MaxItems, ioerr \in BOOLEAN : Save(i, ioerr)
    \/ Tick
    \/ BatchSettled
    \/ BatchRejected
    \/ Restart

Spec == Init /\ [][Next]_vars

\* the fetcher: every kind of answer of the search, on pages of at most one item
NextFetch ==
    \/ \E fn \in FileNames : Setup(fn)
    \/ \E rh \in RateHeaders(now), lh \in LinkHeaders, items \in {<<>>, <<Item1>>} :
          SearchOk(rh @@ lh, items)
    \/ \E e \in SearchErrors : SearchError(e)
    \/ \E i \in 1..MaxItems, ioerr \in BOOLEAN : PreCheck(i, ioerr)
    \/ \E i \in 1..MaxItems, ok \in BOOLEAN, body \in Contents : Download(i, ok, body)
    \/ \E i \in 1..MaxItems, ioerr \in BOOLEAN : Save(i, ioerr)
    \/ Tick
    \/ BatchSettled
    \/ BatchRejected
    \/ Restart

SpecFetch == Init /\ [][NextFetch]_vars

---------------------------------------------------------------------------
(* The re-run: a run that exhausts its parameterizations, then the same
   command again, the search answering as before *)

\* a file name of the default case: three parameterizations
DefaultCaseFile == YarnLock

\* the pages the search may hold: none, one item, the same blob twice, two
\* blobs, an item without sha
RerunLists == {<<>>, <<Item1>>, <<Item1, Item2>>, <<Item3, Item1>>, <<Item4>>}

InitRerun ==
    /\ InitRun
    /\ enumFile = PackageJson
    /\ yielded = <<>>
    /\ enumDone = FALSE
    /\ enumRound = 1
    /\ earlier = <<>>
    /\ answers \in [1..Len(getHelpfulParams(DefaultCaseFile)) -> RerunLists]
    /\ rowsLeft = NotYet

\* the program is started again after a run that exhausted its
\* parameterizations
Rerun ==
    /\ pc = "done"
    /\ exitPath = "exhausted"
    /\ run < MaxRuns
    /\ \A i \in 1..Len(offers) : Settled(offers[i])
    /\ NewProcess
    /\ rowsLeft' = [done |-> TRUE, rows |-> dbRows]
    /\ UNCHANGED <<calls, answers>>

\* each parameterization has one page, the same in both runs
NextRerun ==
    \/ Setup(DefaultCaseFile)
    \/ SearchAnswered(QuotaLeft(now), answers[paramIdx])
    \/ \E i \in 1..MaxItems, ioerr \in BOOLEAN : PreCheck(i, ioerr)
    \/ \E i \in 1..MaxItems, ok \in BOOLEAN, body \in Contents : Download(i, ok, body)
    \/ \E i \in 1..MaxItems, ioerr \in BOOLEAN : Save(i, ioerr)
    \/ BatchSettled
    \/ BatchRejected
    \/ Rerun

SpecRerun == InitRerun /\ [][NextRerun]_vars

---------------------------------------------------------------------------
(* The run to its end: a file name of the default case, every answer of the
   search that lets the run go on, rejections for abuse among the first
   MaxCalls calls only, and no failure of a pre-check, a download or an insert *)

InitLive ==
    /\ InitRun
    /\ enumFile = PackageJson
    /\ yielded = <<>>
    /\ enumDone = FALSE
    /\ enumRound = 1
    /\ earlier = <<>>
    /\ answers = <<>>
    /\ rowsLeft = NotYet

\* a parameterization has one page or two
LiveLinkHeaders == {NoHeaders, LastPage2}

NextLive ==
    \/ Setup(DefaultCaseFile)
    \/ \E rh \in RateHeaders(now), lh \in LiveLinkHeaders, items \in {<<>>, <<Item1>>} :
          SearchAnswered(rh @@ lh, items)
    \/ \E s \in 0..MaxRetryAfterS : SearchError(AbuseError(s))
    \/ \E i \in 1..MaxItems : PreCheck(i, FALSE)
    \/ \E i \in 1..MaxItems, body \in Contents : Download(i, TRUE, body)
    \/ \E i \in 1..MaxItems : Save(i, FALSE)
    \/ BatchSettled

\* the event loop runs what is ready: a response that is due arrives, a
\* callback that can go on does
SpecLive == InitLive /\ [][NextLive]_vars /\ WF_vars(NextLive)

---------------------------------------------------------------------------
(* The enumerator on its own: a for-of loop over getHelpfulParams(enumFile) *)

InitEnum ==
    /\ InitRun
    /\ enumFile \in EnumFileNames
    /\ yielded = <<>>
    /\ enumDone = FALSE
    /\ enumRound = 1
    /\ earlier = <<>>
    /\ answers = <<>>
    /\ rowsLeft = NotYet

\* the generator runs to its next yield
EnumYield ==
    /\ ~enumDone
    /\ Len(yielded) < Len(getHelpfulParams(enumFile))
    /\ yielded' = Append(yielded, getHelpfulParams(enumFile)[Len(yielded) + 1])
    /\ UNCHANGED <<enumFile, enumDone, enumRound, earlier, runVars, rerunVars>>

\* the generator runs off its switch statement
EnumReturn ==
    /\ ~enumDone
    /\ Len(yielded) = Len(getHelpfulParams(enumFile))
    /\ enumDone' = TRUE
    /\ UNCHANGED <<enumFile, yielded, enumRound, earlier, runVars, rerunVars>>

\* getHelpfulParams is called again with the same file name
EnumAgain ==
    /\ enumDone
    /\ enumRound < MaxEnums
    /\ enumRound' = enumRound + 1
    /\ earlier' = yielded
    /\ yielded' = <<>>
    /\ enumDone' = FALSE
    /\ UNCHANGED <<enumFile, runVars, rerunVars>>

\* the calls of the generator, before or after main has set up a database
NextEnum ==
    \/ EnumYield
    \/ EnumReturn
    \/ EnumAgain
    \/ \E fn \in FileNames : Setup(fn)

SpecEnum == InitEnum /\ [][NextEnum]_vars

---------------------------------------------------------------------------
(* The claims *)

\* the rows of table t with blob identity sha
Copies(t, sha) == Cardinality(RowsWith(dbRows[t], sha))

\* C1: no two rows of a table share a git_hash, whatever the interleaving
\* of the offers of a page.
C1_BlobIdentityUnique ==
    \A t \in TableNames : \A i, j \in 1..Len(dbRows[t]) :
        i # j => dbRows[t][i].git_hash # dbRows[t][j].git_hash

\* C2: an item offered when no row and no other offer has its blob identity
\* returns 1; every offer of the same item on a later page returns 0; and the
\* table holds exactly one row with that blob identity.
C2_OfferTwice ==
    \A k \in DOMAIN offerHist :
        offerHist[k].firstCount # -1 =>
            /\ offerHist[k].firstCount = 1
            /\ offerHist[k].laterCounts \subseteq {0}
            /\ Copies(k[1], k[2].sha) = 1

C2_Witness ==
    \E k \in DOMAIN offerHist :
        /\ offerHist[k].firstCount = 1
        /\ offerHist[k].laterCounts = {0}
        /\ Copies(k[1], k[2].sha) = 1

\* the claims' reading of the abuse signal: status 403 with a retry-after value
AbuseSignal(r) ==
    /\ r.outcome = "error"
    /\ r.status = 403
    /\ "retry-after" \in DOMAIN r.headers
    /\ r.headers["retry-after"] # <<>>

\* C3: after a search call for page p was rejected with the abuse signal, the
\* program is about to call again for the same page of the same
\* parameterization, no earlier than the retry-after seconds later, and has
\* not processed that page; a page answered is processed, and no page is
\* processed twice.
C3_AbuseRetriesSamePage ==
    /\ AbuseSignal(lastReq) =>
          /\ pc = "search"
          /\ paramIdx = lastReq.paramIdx
          /\ page = lastReq.page
          /\ now >= lastReq.at + parseInt(lastReq.headers["retry-after"]) * 1000
          /\ <<paramIdx, page>> \notin processed
          /\ offers = <<>>
    /\ lastReq.outcome = "ok" => <<lastReq.paramIdx, lastReq.page>> \in processed
    /\ ~twice

\* page 1 rejected twice in a row, after page 0 was answered
C3_Witness ==
    /\ AbuseSignal(lastReq)
    /\ lastReq.headers["retry-after"] = <<"1">>
    /\ calls = 3
    /\ page = 1
    /\ now >= StartTime + MinSpacing + 2000
    /\ processed = {<<1, 0>>}

\* the claims' reading of a rate-limit header, in seconds or requests
Reported(r, name) == parseInt(r.headers[name])

\* the page of lastReq is processed and main has slept as it paces
Paced(r) == r.outcome = "ok" /\ r.settledAt >= 0

\* C4: once a page whose response reported remaining = 0 and reset = T is
\* processed and the program is ready for its next search call, or has
\* ended, the time is at least T plus the buffer of 2 seconds.
C4_WaitsForReset ==
    (/\ Paced(lastReq)
     /\ "x-ratelimit-remaining" \in DOMAIN lastReq.headers
     /\ "x-ratelimit-reset" \in DOMAIN lastReq.headers
     /\ Reported(lastReq, "x-ratelimit-remaining") = 0)
    => now >= Reported(lastReq, "x-ratelimit-reset") * 1000 + 2000

\* the reset lay ahead when the page was processed, and the next call is due
C4_Witness ==
    /\ Paced(lastReq)
    /\ "x-ratelimit-remaining" \in DOMAIN lastReq.headers
    /\ Reported(lastReq, "x-ratelimit-remaining") = 0
    /\ lastReq.settledAt < Reported(lastReq, "x-ratelimit-reset") * 1000
    /\ now = Reported(lastReq, "x-ratelimit-reset") * 1000 + 2000
    /\ pc = "search"

C6_OnlyUniquenessIsBenign ==
    \A i \in 1..Len(offers) :
        /\ offers[i].err = "UNIQUE" => (offers[i].st = "fulfilled" /\ offers[i].value = 0)
        /\ offers[i].err \in {"NOTNULL", "IOERR", "MISUSE"} => offers[i].st = "rejected"

\* C7: an offer whose blob identity had a row when the pre-check ran returns
\* 0, never downloads and adds no row.
C7_SeenIsSkipped ==
    \A i \in 1..Len(offers) :
        offers[i].hadRow =>
            /\ offers[i].st = "fulfilled"
            /\ offers[i].value = 0
            /\ ~offers[i].downloaded
            /\ ~offers[i].inserted

C7_Witness ==
    \E i \in 1..Len(offers) :
        offers[i].hadRow /\ offers[i].st = "fulfilled" /\ Len(dbRows[tableName]) = 1

\* C8: after a search call failed without the abuse signal the run has ended
\* on the error path, the database closed, no offer of the run in flight and
\* no search call made since.
C8_OtherFailureIsFatal ==
    (lastReq.outcome = "error" /\ ~AbuseSignal(lastReq)) =>
        /\ pc = "done"
        /\ exitPath = "error"
        /\ ~dbOpen
        /\ offers = <<>>

\* a 403 without retry-after on a later page
C8_Witness ==
    /\ lastReq.outcome = "error"
    /\ lastReq.status = 403
    /\ ~AbuseSignal(lastReq)
    /\ lastReq.page = 1
    /\ pc = "done"

\* what a timer of no delay takes
ZeroTimerMs == setTimeout(0)

\* C9: after a page whose response carried neither rate-limit header, the
\* next search call comes a positive wait after the processing of the page
\* ended: later than a timer of no delay would fire.
C9_PausesWithoutHeaders ==
    (/\ Paced(lastReq)
     /\ "x-ratelimit-remaining" \notin DOMAIN lastReq.headers
     /\ "x-ratelimit-reset" \notin DOMAIN lastReq.headers)
    => now > lastReq.settledAt + ZeroTimerMs

\* the claims' reading of a link header with a last relation
HasLast(r) == "link" \in DOMAIN r.headers /\ "last" \in DOMAIN r.headers["link"]

\* C10: when the response for page 0 has no link header, or a link header
\* without last relation, lastPage is 0 while the items are processed, the
\* items are processed, and afterwards the program is at page 0 of the next
\* parameterization, or has ended with the parameterizations exhausted.
C10_NoLastEndsParameterization ==
    (lastReq.outcome = "ok" /\ lastReq.page = 0 /\ ~HasLast(lastReq)) =>
        /\ <<lastReq.paramIdx, 0>> \in processed
        /\ pc = "processing" => (lastPage = 0 /\ paramIdx = lastReq.paramIdx /\ page = 0)
        /\ pc = "search" => (paramIdx = lastReq.paramIdx + 1 /\ page = 0)
        /\ (pc = "done" /\ exitPath = "exhausted") => lastReq.paramIdx = Len(Params)
        /\ lastReq.settledAt >= 0 => pc \in {"search", "done"}

\* a link header with next but no last, the items processed, the next
\* parameterization due
C10_Witness ==
    /\ Paced(lastReq)
    /\ lastReq.page = 0
    /\ "link" \in DOMAIN lastReq.headers
    /\ ~HasLast(lastReq)
    /\ pc = "search"
    /\ paramIdx = lastReq.paramIdx + 1
    /\ page = 0

\* C11: whenever the program is about to issue a search call, no callback of
\* an earlier page's items is at its pre-check, its download or its insert.
C11_NoRequestWhileInFlight ==
    pc = "search" => \A i \in 1..Len(offers) : Settled(offers[i])

\* a page of two items, both stored, and the next search call due
C11_Witness ==
    /\ pc = "search"
    /\ calls = 1
    /\ lastReq.outcome = "ok"
    /\ lastReq.settledAt >= 0
    /\ Len(dbRows[tableName]) = 2

\* C12: the database is open and not yet closed while the run goes on; once
\* the run has ended, by exhausting the parameterizations or by an error of a
\* search call, a pre-check, a download or an insert, the database is closed,
\* and cleanup has closed it exactly once.
C12_ClosedExactlyOnce ==
    /\ closes <= 1
    /\ pc \in {"search", "processing"} => (dbOpen /\ closes = 0 /\ exitPath = "none")
    /\ pc = "done" => (~dbOpen /\ closes = 1 /\ exitPath \in {"exhausted", "error"})

\* the run ended by an insert that failed for good
C12_Witness ==
    /\ pc = "done"
    /\ exitPath = "error"
    /\ ~dbOpen
    /\ closes = 1
    /\ \E i \in 1..Len(offers) : offers[i].err = "IOERR" /\ offers[i].st = "rejected"

\* the values yielded so far under default sort
DefaultSorted == {i \in 1..Len(yielded) : yielded[i].sortParam = Undefined}

ReportedLast(r) == IF HasLast(r) THEN parseInt(r.headers["link"]["last"]) ELSE 0

\* C15: once page p of a parameterization is processed and main has paced,
\* the program is about to request page p + 1 of the same parameterization
\* if and only if p + 1 is below the last page index L of the response for
\* page p, whatever earlier responses reported; otherwise it is at page 0 of
\* the next parameterization or has ended with the parameterizations
\* exhausted.  Every page processed after page 0 follows the page before it,
\* no page is processed twice, and the page being processed is the highest
\* of its parameterization so far.
C15_NextPageIffBelowLast ==
    /\ Paced(lastReq) =>
          IF lastReq.page + 1 < ReportedLast(lastReq)
          THEN pc = "search" /\ paramIdx = lastReq.paramIdx /\ page = lastReq.page + 1
          ELSE \/ pc = "search" /\ paramIdx = lastReq.paramIdx + 1 /\ page = 0
               \/ pc = "done" /\ exitPath = "exhausted" /\ paramIdx = Len(Params)
    /\ \A pr \in processed : pr[2] > 0 => <<pr[1], pr[2] - 1>> \in processed
    /\ \A pr \in processed : pr[2] >= 0
    /\ ~twice
    /\ pc = "processing" =>
          /\ <<paramIdx, page>> \in processed
          /\ \A pr \in processed : pr[1] = paramIdx => pr[2] <= page

\* page 1 processed, its response reporting a last page index of 3 where
\* page 0's response had reported one that let page 1 be requested; page 2 due
C15_Witness ==
    /\ Paced(lastReq)
    /\ lastReq.page = 1
    /\ ReportedLast(lastReq) = 3
    /\ pc = "search"
    /\ page = 2
    /\ processed = {<<1, 0>>, <<1, 1>>}

\* C16: once a page whose response reported remaining >= 1 is processed and
\* main has paced, the time is at least 3 seconds after the search call for
\* that page; when processing the page took 3 seconds or more, main has not
\* slept at all, and when it took less, main has slept to the 3 seconds and
\* no longer.
C16_MinSpacing ==
    (/\ Paced(lastReq)
     /\ "x-ratelimit-remaining" \in DOMAIN lastReq.headers
     /\ Reported(lastReq, "x-ratelimit-remaining") >= 1)
    => /\ now >= lastReq.at + 3000
       /\ lastReq.settledAt - lastReq.at >= 3000 => now = lastReq.settledAt
       /\ lastReq.settledAt - lastReq.at < 3000 => now = lastReq.at + 3000

\* processing took half the spacing, main slept the other half, the next
\* search call is due
C16_Witness ==
    /\ Paced(lastReq)
    /\ "x-ratelimit-remaining" \in DOMAIN lastReq.headers
    /\ Reported(lastReq, "x-ratelimit-remaining") = 1
    /\ lastReq.settledAt = lastReq.at + 1500
    /\ now = lastReq.at + 3000
    /\ pc = "search"

\* the blob identities of the rows the table had when the page arrived
StoredBefore == {dbRows[tableName][i].git_hash : i \in 1..lastReq.rowsBefore}

\* the blob identities on the page that were not stored before the page
FreshOnPage == {offers[i].item.sha : i \in 1..Len(offers)} \ (StoredBefore \cup {Undefined})

\* C17: when every offer of a page has settled and processSearchResults
\* reports its count, the count equals the number of rows added to the table
\* since the page arrived, and that number equals the number of distinct blob
\* identities on the page that had no row before the page.
C17_CountIsRowsAdded ==
    (pc = "processing" /\ PromiseAll(offers) = "fulfilled") =>
        /\ insertedCount = Len(dbRows[tableName]) - lastReq.rowsBefore
        /\ Len(dbRows[tableName]) - lastReq.rowsBefore = Cardinality(FreshOnPage)

C19_RunCompletes ==
    /\ [][paramIdx' = paramIdx \/ paramIdx' = paramIdx + 1]_vars
    /\ <>(/\ pc = "done"
          /\ exitPath = "exhausted"
          /\ ~dbOpen
          /\ paramIdx = Len(getHelpfulParams(DefaultCaseFile))
          /\ \A k \in 1..Len(getHelpfulParams(DefaultCaseFile)) : <<k, 0>> \in processed)

\* the run ended after rejections for abuse and a parameterization of more
\* than one page
C19_Witness ==
    /\ pc = "done"
    /\ exitPath = "exhausted"
    /\ ~dbOpen
    /\ calls >= Cardinality(processed) + MaxCalls
    /\ \E k \in 1..3 : <<k, 1>> \in processed

\* C20: once the database is closed, no callback of a page's items is at its
\* pre-check, its download or its insert: every offer of the page had
\* settled before cleanup closed the database.
C20_ClosedOnlyAfterSettled ==
    ~dbOpen => \A i \in 1..Len(offers) : Settled(offers[i])

=============================================================================
